---- MODULE Spec2Model ----
(***************************************************************************)
(* Monadic containers of Monads-in-typescript (Option, Either, Try, List,  *)
(* IO, Writer) as a state machine of one caller: the caller holds one      *)
(* container `m`; every action is one call of a library method on `m`, and  *)
(* `last` records that call (method, function argument, completion).       *)
(*                                                                         *)
(* A completion is what a TypeScript call ends with: a returned value or a *)
(* thrown error, together with the trace of invocations of the caller's    *)
(* functions that happened during the call, in order.                      *)
(***************************************************************************)
EXTENDS Integers, Sequences, FiniteSets, TLC

\* Payload values are 0..MaxVal.
MaxVal == 1

Vals == 0 .. MaxVal
\* Error values a caller's function may throw / a Failure may carry.
Errs == {"boom", "bang"}
\* Payloads of Left (the tests use -1 as the left value).
Lefts == {-1, -2}

\* Elements of lists.
Elems == {0, 1}
\* Longest list the caller holds.
MaxLen == 2
\* Longest list a caller's function returns.
MaxOut == 2
\* Most bind/map calls of an IO program the caller builds step by step.
MaxChain == 2
\* Most runUnsafe calls on one IO program.
MaxRuns == 2
\* Most bind/tell/map calls on the Writer the caller builds step by step.
MaxOps == 5
\* Most calls that built a Writer on which the monad laws are tried.
MaxLawOps == 1
\* Most bind/map/filter calls that built the list the caller holds.
MaxListOps == 2

VARIABLES
  m,        \* the container the caller holds
  last,     \* the last call: its method, function argument and completion
  runs,     \* number of runUnsafe calls made on the program the caller holds
  effects,  \* every invocation of a caller's function so far, in order
  history   \* the calls that built the Writer the caller holds, in order

vars == <<m, last, runs, effects, history>>

----------------------------------------------------------------------------
(* Completions of a call.                                                  *)

Ret(v) == [kind |-> "ret", val |-> v, calls |-> <<>>]

Throw(e) == [kind |-> "throw", err |-> e, calls |-> <<>>]

\* `second` evaluated after `first` returned: the traces are concatenated.
After(first, second) == [second EXCEPT !.calls = first.calls \o @]

----------------------------------------------------------------------------
(* Objects. `ref` is the identity of the object as far as one call can     *)
(* tell: "held" (the caller built it before the call), "returned" (a       *)
(* caller's function built it), "fresh" (the library allocated it with     *)
(* `new` during the call), or the name of a canonical singleton.           *)

Some(value, ref) == [tag |-> "Some", value |-> value, ref |-> ref]

None_instance == [tag |-> "None", ref |-> "None.instance"]

None_get == None_instance

Right(value, ref) == [tag |-> "Right", value |-> value, ref |-> ref]

Left(value, ref) == [tag |-> "Left", value |-> value, ref |-> ref]

Success(value, ref) == [tag |-> "Success", value |-> value, ref |-> ref]

Failure(error, ref) == [tag |-> "Failure", error |-> error, ref |-> ref]

Option_pure(value) == Some(value, "fresh")

Either_asRight(value) == Right(value, "fresh")

Either_asLeft(value) == Left(value, "fresh")

Pair(head, tail) == [tag |-> "Pair", head |-> head, tail |-> tail]

Empty_instance == [tag |-> "Empty"]

Empty_get == Empty_instance

\* An IO holds its deferred effect, a closure:
\*   "value"  () => value                            (IO.of)
\*   "thunk"  the caller's thunk                     (IO.from)
\*   "bind"   () => func(src.effect()).runUnsafe()   (IO.bind)
\*   "map"    () => func(src.effect())               (IO.map)
IO(effect) == [tag |-> "IO", effect |-> effect]

IO_of(value) == IO([e |-> "value", value |-> value])

IO_from(thunk) == IO([e |-> "thunk", thunk |-> thunk])

\* The monoids of src/Monoid.ts and of the tests. `id` is the object: two calls
\* of ListMonoid() give two objects that combine alike.
StringConcatMonoid == [id |-> "StringConcatMonoid", combine |-> "concat"]

ListMonoid(n) == [id |-> "ListMonoid#" \o ToString(n), combine |-> "spread"]

lastLogOnlyMonoid == [id |-> "lastLogOnlyMonoid", combine |-> "second"]

\* Monoid<string[]> or Monoid<string>.
LogType(monoid) == IF monoid.combine = "spread" THEN "string[]" ELSE "string"

Monoid_pure(monoid) == IF LogType(monoid) = "string[]" THEN <<>> ELSE ""

\* x + y, [...x, ...y], and (_x, y) => y.
Monoid_combine(monoid, x, y) ==
  IF monoid.combine \in {"concat", "spread"} THEN x \o y ELSE y

Writer(value, log, monoid) ==
  [tag |-> "Writer", value |-> value, log |-> log, monoid |-> monoid]

Writer_of(value, monoid) == Writer(value, Monoid_pure(monoid), monoid)

\* A JavaScript value the caller passes: its type and its text.
JSValue(type, text) == [tag |-> "JS", value |-> <<type, text>>]

\* value == null: true of null and of undefined, of nothing else.
LooselyEqualsNull(value) == value[1] \in {"null", "undefined"}

\* !value: true of null, undefined, 0, NaN, "" and false.
Falsy(value) ==
  \/ value[1] \in {"null", "undefined"}
  \/ value \in {<<"number", "0">>, <<"number", "NaN">>, <<"string", "">>,
                 <<"boolean", "false">>}

\* The variants a sum type declares (the keys of T in Sum<T>).
Variants == {"A", "B", "C"}

\* A plain object: a function from its field names to their values. The
\* caller holds it as a value of the sum type.
ADT(object) == [tag |-> "ADT", object |-> object]

\* The object a caller passes to a constructor (args: any at run time).
Args(object) == [tag |-> "Args", object |-> object]

\* makeConstructors()[key](args) = { _type: key, ...args }: the fields of
\* args are written after _type.
makeConstructors(key, args) == ADT(args @@ ("_type" :> key))

\* The container family of an object.
Family(c) ==
  CASE c.tag \in {"Some", "None"} -> "Option"
    [] c.tag \in {"Right", "Left"} -> "Either"
    [] c.tag \in {"Success", "Failure"} -> "Try"
    [] c.tag \in {"Pair", "Empty"} -> "List"
    [] c.tag = "IO" -> "IO"
    [] c.tag = "Writer" -> "Writer"
    [] c.tag = "ADT" -> "ADT"
    [] c.tag = "Args" -> "Args"
    [] c.tag = "JS" -> "JS"

\* pure of each family: Option.pure, Either.asRight, x => new Success(x),
\* x => new Pair(x, Empty.get()), IO.of.
Pure(fam, value) ==
  CASE fam = "Option" -> Option_pure(value)
    [] fam = "Either" -> Either_asRight(value)
    [] fam = "Try" -> Success(value, "fresh")
    [] fam = "List" -> Pair(value, Empty_get)
    [] fam = "IO" -> IO_of(value)

----------------------------------------------------------------------------
(* Function values passed to the library.                                  *)
(*   "fn"      a function of the caller, given by its table; it may throw  *)
(*   "pure"    the family's pure, passed as a function                     *)
(*   "lift"    value => pure(func(value)), the closure map builds          *)
(*   "kleisli" value => f(value).bind(g)                                   *)
(*   "plus"    value => value + k                                          *)
(*   "expand"  value => [value, value * k]                                 *)
(* and the continuations given to Writer.bind:                             *)
(*   "factorial" (prev, make) => make(prev * n, [temp(n, `${prev * n}`)])  *)
(*   "of"        (value) => Writer.of(value, monoid)                       *)
(*   "make"      (value, make) => make(tbl[value].value, tbl[value].text)  *)
(*   "kleisli"   (value, make) => f(value, make).bind(g)                   *)
(*   "lift"      (value, make) => make(func(value), monoid.pure)           *)

Fn(name, tbl) == [type |-> "fn", name |-> name, tbl |-> tbl]

PureFn(fam) == [type |-> "pure", of |-> fam]

Lift(fam, func) == [type |-> "lift", of |-> fam, func |-> func]

Kleisli(f, g) == [type |-> "kleisli", f |-> f, g |-> g]

Plus(name, k) == [type |-> "plus", name |-> name, k |-> k]

FactorialStep(n) == [type |-> "factorial", name |-> "factorial", n |-> n]

OfStep(monoid) == [type |-> "of", name |-> "of", monoid |-> monoid]

\* (x) => new Pair(x, new Pair(x * k, Empty.get()))
Expand(name, k) == [type |-> "expand", name |-> name, k |-> k]

MakeFn(name, tbl) == [type |-> "make", name |-> name, tbl |-> tbl]

\* temp(n, value) of the factorial test.
temp(n, value) == "Fac(" \o ToString(n) \o ")=" \o ToString(value)

\* A log entry of the log type of the monoid: a string, or an array of one.
Entry(monoid, text) == IF LogType(monoid) = "string[]" THEN <<text>> ELSE text

\* A caller's function of two arguments, (acc, head) => tbl[acc, head].
Fn2(name, tbl) == [type |-> "fn2", name |-> name, tbl |-> tbl]

Invoke2(func, acc, head) ==
  After([calls |-> << [fn |-> func.name, arg |-> <<acc, head>>] >>],
        Ret(func.tbl[acc, head]))

\* A thunk of the caller: () => value, with a side effect of its own.
Thunk(name, value) == [type |-> "thunk", name |-> name, out |-> Ret(value)]

\* A call of a caller's function: one entry in the trace, then its outcome.
Invoke(func, x) ==
  After([calls |-> << [fn |-> func.name, arg |-> <<x>>] >>], func.tbl[x])

\* A call of a caller's thunk.
InvokeThunk(thunk) ==
  After([calls |-> << [fn |-> thunk.name, arg |-> <<>>] >>], thunk.out)

RECURSIVE Apply(_, _)
RECURSIVE List_map(_, _)
RECURSIVE List_filter(_, _)
RECURSIVE List_foldLeft(_, _, _)
RECURSIVE List_foldRight(_, _, _)

RECURSIVE Bind(_, _)

RECURSIVE IO_runUnsafe(_)

----------------------------------------------------------------------------
(* Option                                                                  *)

\* Some.bind with a catch that turns a thrown error into None.
Some_bind_catch(self, func) ==
  LET r == Apply(func, self.value)
  IN  IF r.kind = "throw" THEN After(r, Ret(None_get)) ELSE r

Some_bind(self, func) == Apply(func, self.value)

\* None.bind building a None of its own instead of returning the instance.
None_bind_fresh(self, func) == Ret([tag |-> "None", ref |-> "fresh"])

None_bind(self, func) == Ret(None_get)

Option_bind(self, func) ==
  IF self.tag = "Some" THEN Some_bind(self, func) ELSE None_bind(self, func)

Option_map(self, func) == Option_bind(self, Lift("Option", func))

\* fromNullable with !value in place of value == null.
Option_fromNullable_falsy(value) ==
  IF Falsy(value) THEN Ret(None_get) ELSE Ret(Option_pure(value))

\* value == null ? None.get() : Option.pure(value)
Option_fromNullable(value) ==
  IF LooselyEqualsNull(value) THEN Ret(None_get) ELSE Ret(Option_pure(value))

\* this.match({ ifSome: (_value) => this, ifNone: fallback }): Some.match
\* calls ifSome(this.value), None.match calls ifNone().
Option_orElse(self, fallback) ==
  IF self.tag = "Some" THEN Ret(self) ELSE InvokeThunk(fallback)

----------------------------------------------------------------------------
(* Either                                                                  *)

\* Right.bind that ignores the function and returns the receiver.
Right_bind_keep(self, func) == Ret(self)

Right_bind(self, func) == Apply(func, self.value)

Left_bind(self, func) == Ret(Left(self.value, "fresh"))

Either_bind(self, func) ==
  IF self.tag = "Right" THEN Right_bind(self, func) ELSE Left_bind(self, func)

Either_map(self, func) == Either_bind(self, Lift("Either", func))

\* Right.orElse that evaluates the fallback before it returns this.
Right_orElse_eager(self, fallback) ==
  LET r == InvokeThunk(fallback)
  IN  IF r.kind = "throw" THEN r ELSE After(r, Ret(self))

Right_orElse(self, fallback) == Ret(self)

Left_orElse(self, fallback) == InvokeThunk(fallback)

Either_orElse(self, fallback) ==
  IF self.tag = "Right"
    THEN Right_orElse(self, fallback)
    ELSE Left_orElse(self, fallback)

\* (predicate) => (predicate(this.value) ? this : new Left(left))
Right_ensure(self, left, predicate) ==
  LET r == Apply(predicate, self.value)
  IN  IF r.kind = "throw"
        THEN r
        ELSE IF r.val
               THEN After(r, Ret(self))
               ELSE After(r, Ret(Left(left, "fresh")))

\* Left.ensure that returns a new Left with the left value given.
Left_ensure_new(self, left, predicate) == Ret(Left(left, "fresh"))

\* (_predicate) => this
Left_ensure(self, left, predicate) == Ret(self)

Either_ensure(self, left, predicate) ==
  IF self.tag = "Right"
    THEN Right_ensure(self, left, predicate)
    ELSE Left_ensure(self, left, predicate)

----------------------------------------------------------------------------
(* Try                                                                     *)

\* Success.map without its try/catch.
Success_map_nocatch(self, func) ==
  LET r == Apply(func, self.value)
  IN  IF r.kind = "throw" THEN r ELSE After(r, Ret(Success(r.val, "fresh")))

\* Success.bind without its try/catch.
Success_bind_nocatch(self, func) == Apply(func, self.value)

Success_bind(self, func) ==
  LET r == Apply(func, self.value)
  IN  IF r.kind = "throw"
        THEN After(r, Ret(Failure(r.err, "fresh")))
        ELSE r

Success_map(self, func) ==
  LET r == Apply(func, self.value)
  IN  IF r.kind = "throw"
        THEN After(r, Ret(Failure(r.err, "fresh")))
        ELSE After(r, Ret(Success(r.val, "fresh")))

Failure_bind(self, func) == Ret(Failure(self.error, "fresh"))

Failure_map(self, func) == Ret(Failure(self.error, "fresh"))

Success_getOrElse(self, defaultValue) == Ret(self.value)

Failure_getOrElse(self, defaultValue) == Ret(defaultValue)

Success_recover(self, func) == Ret(self)

Success_recoverWith(self, func) == Ret(self)

\* Failure.recover without its try/catch.
Failure_recover_nocatch(self, func) ==
  LET r == Apply(func, self.error)
  IN  IF r.kind = "throw" THEN r ELSE After(r, Ret(Success(r.val, "fresh")))

Failure_recover(self, func) ==
  LET r == Apply(func, self.error)
  IN  IF r.kind = "throw"
        THEN After(r, Ret(Failure(r.err, "fresh")))
        ELSE After(r, Ret(Success(r.val, "fresh")))

\* Failure.recoverWith that calls func and keeps the Failure.
Failure_recoverWith_keep(self, func) ==
  LET r == Apply(func, self.error)
  IN  IF r.kind = "throw"
        THEN After(r, Ret(Failure(r.err, "fresh")))
        ELSE After(r, Ret(self))

Failure_recoverWith(self, func) ==
  LET r == Apply(func, self.error)
  IN  IF r.kind = "throw"
        THEN After(r, Ret(Failure(r.err, "fresh")))
        ELSE r

Try_bind(self, func) ==
  IF self.tag = "Success"
    THEN Success_bind(self, func)
    ELSE Failure_bind(self, func)

Try_map(self, func) ==
  IF self.tag = "Success"
    THEN Success_map(self, func)
    ELSE Failure_map(self, func)

Try_recover(self, func) ==
  IF self.tag = "Success"
    THEN Success_recover(self, func)
    ELSE Failure_recover(self, func)

Try_recoverWith(self, func) ==
  IF self.tag = "Success"
    THEN Success_recoverWith(self, func)
    ELSE Failure_recoverWith(self, func)

----------------------------------------------------------------------------
(* List                                                                    *)

\* The local concat of Pair.bind.
RECURSIVE concat(_, _)
concat(l1, l2) ==
  IF l1.tag = "Empty" THEN l2 ELSE Pair(l1.head, concat(l1.tail, l2))

\* Pair.bind that does not bind the tail: concat(func(this.head), this.tail).
Pair_bind_norec(self, func) ==
  LET r1 == Apply(func, self.head)
  IN  IF r1.kind = "throw" THEN r1 ELSE After(r1, Ret(concat(r1.val, self.tail)))

\* Pair.bind that drops the tail: func(this.head).
Pair_bind_headonly(self, func) == Apply(func, self.head)

\* Pair.bind with the arguments of concat exchanged.
Pair_bind_swapped(self, func) ==
  LET r1 == Apply(func, self.head)
  IN  IF r1.kind = "throw"
        THEN r1
        ELSE LET r2 == After(r1, Bind(self.tail, func))
             IN  IF r2.kind = "throw"
                   THEN r2
                   ELSE After(r2, Ret(concat(r2.val, r1.val)))

\* concat(func(this.head), this.tail.bind(func)): func(head) is evaluated first.
Pair_bind(self, func) ==
  LET r1 == Apply(func, self.head)
  IN  IF r1.kind = "throw"
        THEN r1
        ELSE LET r2 == After(r1, Bind(self.tail, func))
             IN  IF r2.kind = "throw"
                   THEN r2
                   ELSE After(r2, Ret(concat(r1.val, r2.val)))

Empty_bind(self, func) == Ret(Empty_get)

List_bind(self, func) ==
  IF self.tag = "Pair" THEN Pair_bind(self, func) ELSE Empty_bind(self, func)

\* new Pair(func(this.head), this.tail.map(func))
Pair_map(self, func) ==
  LET r1 == Apply(func, self.head)
  IN  IF r1.kind = "throw"
        THEN r1
        ELSE LET r2 == After(r1, List_map(self.tail, func))
             IN  IF r2.kind = "throw"
                   THEN r2
                   ELSE After(r2, Ret(Pair(r1.val, r2.val)))

Empty_map(self, func) == Ret(Empty_get)

List_map(self, func) ==
  IF self.tag = "Pair" THEN Pair_map(self, func) ELSE Empty_map(self, func)

\* func(this.head) ? new Pair(this.head, this.tail.filter(func))
\*                 : this.tail.filter(func)
Pair_filter(self, func) ==
  LET r1 == Apply(func, self.head)
  IN  IF r1.kind = "throw"
        THEN r1
        ELSE LET r2 == After(r1, List_filter(self.tail, func))
             IN  IF r2.kind = "throw"
                   THEN r2
                   ELSE IF r1.val
                          THEN After(r2, Ret(Pair(self.head, r2.val)))
                          ELSE r2

Empty_filter(self, func) == Ret(self)

List_filter(self, func) ==
  IF self.tag = "Pair" THEN Pair_filter(self, func) ELSE Empty_filter(self, func)

\* Pair.foldRight that folds from the head: the order of foldLeft.
Pair_foldRight_headfirst(self, seed, func) ==
  LET r1 == Invoke2(func, seed, self.head)
  IN  After(r1, List_foldRight(self.tail, r1.val, func))

\* this.tail.foldLeft(func(seed, this.head))(func)
Pair_foldLeft(self, seed, func) ==
  LET r1 == Invoke2(func, seed, self.head)
  IN  After(r1, List_foldLeft(self.tail, r1.val, func))

\* func(this.tail.foldRight(seed)(func), this.head)
Pair_foldRight(self, seed, func) ==
  LET r1 == List_foldRight(self.tail, seed, func)
  IN  After(r1, Invoke2(func, r1.val, self.head))

Empty_foldLeft(self, seed, func) == Ret(seed)

Empty_foldRight(self, seed, func) == Ret(seed)

List_foldLeft(self, seed, func) ==
  IF self.tag = "Pair"
    THEN Pair_foldLeft(self, seed, func)
    ELSE Empty_foldLeft(self, seed, func)

List_foldRight(self, seed, func) ==
  IF self.tag = "Pair"
    THEN Pair_foldRight(self, seed, func)
    ELSE Empty_foldRight(self, seed, func)

Pair_isEmpty(self) == FALSE

Empty_isEmpty(self) == FALSE

List_isEmpty(self) ==
  IF self.tag = "Pair" THEN Pair_isEmpty(self) ELSE Empty_isEmpty(self)

\* The handler match calls, and with what.
Pair_match(self) == [branch |-> "ifPair", args |-> <<self.head, self.tail>>]

Empty_match(self) == [branch |-> "ifEmpty", args |-> <<>>]

List_match(self) ==
  IF self.tag = "Pair" THEN Pair_match(self) ELSE Empty_match(self)

----------------------------------------------------------------------------
(* IO                                                                      *)

\* IO.bind that runs the receiver's effect when the program is built and
\* captures its value.
IO_bind_eager(self, func) ==
  LET a == IO_runUnsafe(self)
  IN  IF a.kind = "throw"
        THEN a
        ELSE After(a, Ret(IO([e |-> "bind", src |-> IO_of(a.val),
                              func |-> func])))

IO_bind(self, func) == Ret(IO([e |-> "bind", src |-> self, func |-> func]))

IO_map(self, func) == Ret(IO([e |-> "map", src |-> self, func |-> func]))

\* this.effect()
IO_runUnsafe(self) ==
  LET eff == self.effect
  IN  CASE eff.e = "value" -> Ret(eff.value)
        [] eff.e = "thunk" -> InvokeThunk(eff.thunk)
        [] eff.e = "bind" ->
             LET a == IO_runUnsafe(eff.src)
             IN  IF a.kind = "throw"
                   THEN a
                   ELSE LET io == After(a, Apply(eff.func, a.val))
                        IN  IF io.kind = "throw"
                              THEN io
                              ELSE After(io, IO_runUnsafe(io.val))
        [] eff.e = "map" ->
             LET a == IO_runUnsafe(eff.src)
             IN  IF a.kind = "throw" THEN a ELSE After(a, Apply(eff.func, a.val))

----------------------------------------------------------------------------
(* Writer                                                                  *)

\* make of Writer.bind: new Writer(value, log, this.monoid).
Writer_make(monoid, value, log) == Writer(value, log, monoid)

RECURSIVE Writer_bind(_, _)
RECURSIVE ApplyContinuation(_, _, _)

\* func(this.value, make) for the continuations of the tests.
ApplyContinuation(func, value, monoid) ==
  CASE func.type = "factorial" ->
         After([calls |-> << [fn |-> func.name, arg |-> <<value>>] >>],
               Ret(Writer_make(monoid, value * func.n,
                               Entry(monoid, temp(func.n, value * func.n)))))
    [] func.type = "of" ->
         After([calls |-> << [fn |-> func.name, arg |-> <<value>>] >>],
               Ret(Writer_of(value, func.monoid)))
    [] func.type = "make" ->
         After([calls |-> << [fn |-> func.name, arg |-> <<value>>] >>],
               Ret(Writer_make(monoid, func.tbl[value].value,
                               Entry(monoid, func.tbl[value].text))))
    [] func.type = "kleisli" ->
         LET r == ApplyContinuation(func.f, value, monoid)
         IN  After(r, Writer_bind(r.val, func.g))
    [] func.type = "lift" ->
         LET r == Apply(func.func, value)
         IN  After(r, Ret(Writer_make(monoid, r.val, Monoid_pure(monoid))))

\* Writer.bind with the arguments of combine exchanged.
Writer_bind_swapped(self, func) ==
  LET result == ApplyContinuation(func, self.value, self.monoid)
  IN  IF result.val.monoid # self.monoid
        THEN After(result, Throw("AssertionError"))
        ELSE After(result,
                   Ret(Writer(result.val.value,
                              Monoid_combine(self.monoid, result.val.log,
                                             self.log),
                              self.monoid)))

\* Writer.bind that keeps only the log of the continuation's Writer.
Writer_bind_forget(self, func) ==
  LET result == ApplyContinuation(func, self.value, self.monoid)
  IN  IF result.val.monoid # self.monoid
        THEN After(result, Throw("AssertionError"))
        ELSE After(result,
                   Ret(Writer(result.val.value, result.val.log, self.monoid)))

\* Writer.bind of src/Monoid.ts.
Writer_bind(self, func) ==
  LET result == ApplyContinuation(func, self.value, self.monoid)
  IN  IF result.val.monoid # self.monoid
        THEN After(result, Throw("AssertionError"))
        ELSE After(result,
                   Ret(Writer(result.val.value,
                              Monoid_combine(self.monoid, self.log,
                                             result.val.log),
                              self.monoid)))

\* Writer.bind of src/Writer.ts and src/unnamed/part_001: func(this.value),
\* no assertion.
Writer_bind_unasserted(self, func) ==
  LET result == ApplyContinuation(func, self.value, self.monoid)
  IN  After(result,
            Ret(Writer(result.val.value,
                       Monoid_combine(self.monoid, self.log, result.val.log),
                       self.monoid)))

Writer_map(self, func) ==
  LET r == Apply(func, self.value)
  IN  After(r, Ret(Writer(r.val, self.log, self.monoid)))

Writer_tell(self, log) ==
  Ret(Writer(self.value, Monoid_combine(self.monoid, self.log, log),
             self.monoid))

----------------------------------------------------------------------------
(* ADTs                                                                    *)

\* A handler (v) => returns, under the key `name` of a handler map.
Handler(name, returns) == [name |-> name, returns |-> returns]

\* handlers[value._type](value): calling a missing handler is a TypeError.
match(value, handlers) ==
  IF value.object["_type"] \in DOMAIN handlers
    THEN After([calls |-> << [fn |-> handlers[value.object["_type"]].name,
                              arg |-> <<value.object>>] >>],
               Ret(handlers[value.object["_type"]].returns))
    ELSE Throw("TypeError")

----------------------------------------------------------------------------
(* Dynamic dispatch on the receiver.                                       *)

Bind(self, func) ==
  CASE Family(self) = "Option" -> Option_bind(self, func)
    [] Family(self) = "Either" -> Either_bind(self, func)
    [] Family(self) = "Try" -> Try_bind(self, func)
    [] Family(self) = "List" -> List_bind(self, func)
    [] Family(self) = "IO" -> IO_bind(self, func)

Map(self, func) ==
  CASE Family(self) = "Option" -> Option_map(self, func)
    [] Family(self) = "Either" -> Either_map(self, func)
    [] Family(self) = "Try" -> Try_map(self, func)
    [] Family(self) = "List" -> List_map(self, func)
    [] Family(self) = "IO" -> IO_map(self, func)

Apply(func, x) ==
  CASE func.type = "fn" -> Invoke(func, x)
    [] func.type = "pure" -> Ret(Pure(func.of, x))
    [] func.type = "plus" ->
         After([calls |-> << [fn |-> func.name, arg |-> <<x>>] >>],
               Ret(x + func.k))
    [] func.type = "expand" ->
         After([calls |-> << [fn |-> func.name, arg |-> <<x>>] >>],
               Ret(Pair(x, Pair(x * func.k, Empty_get))))
    [] func.type = "lift" ->
         LET r == Apply(func.func, x)
         IN  IF r.kind = "throw" THEN r ELSE After(r, Ret(Pure(func.of, r.val)))
    [] func.type = "kleisli" ->
         LET r == Apply(func.f, x)
         IN  IF r.kind = "throw" THEN r ELSE After(r, Bind(r.val, func.g))

----------------------------------------------------------------------------
(* What the caller can hold and pass.                                      *)

Options(ref) == {Some(v, ref) : v \in Vals} \cup {None_get}

Eithers(ref) == {Right(v, ref) : v \in Vals} \cup {Left(l, ref) : l \in Lefts}

Tries(ref) == {Success(v, ref) : v \in Vals} \cup {Failure(e, ref) : e \in Errs}

RECURSIVE ListOf(_)
ListOf(s) == IF s = <<>> THEN Empty_get ELSE Pair(Head(s), ListOf(Tail(s)))

Lists(maxLen) == {ListOf(s) : s \in UNION {[1 .. n -> Elems] : n \in 0 .. maxLen}}

\* The elements of a list, head first.
RECURSIVE ToSeq(_)
ToSeq(l) == IF l.tag = "Empty" THEN <<>> ELSE <<l.head>> \o ToSeq(l.tail)

\* The list [1, 2, 3].
ExampleList == ListOf(<<1, 2, 3>>)

\* Programs the caller starts from: IO.of(v), IO.from(thunk).
IOs(thunkName) ==
  {IO_of(v) : v \in Vals} \cup {IO_from(Thunk(thunkName, v)) : v \in Vals}

Monoids == {StringConcatMonoid, lastLogOnlyMonoid, ListMonoid(1), ListMonoid(2)}

\* The monoids the type checker lets a continuation of `self` use.
MonoidsOfType(monoid) == {x \in Monoids : LogType(x) = LogType(monoid)}

\* The caller's continuations (value, make) => make(value', text): each has
\* a text of its own.
MakeFns(name) ==
  {MakeFn(name, t) : t \in [Vals -> {[value |-> v, text |-> name] : v \in Vals}]}

\* The values a caller passes to fromNullable: null, undefined, the falsy
\* values and some others.
JSValues ==
  {JSValue("null", "null"), JSValue("undefined", "undefined"),
   JSValue("number", "NaN"), JSValue("string", ""), JSValue("string", "a"),
   JSValue("boolean", "false"), JSValue("boolean", "true")}
    \cup {JSValue("number", ToString(v)) : v \in Vals}

\* The values of the sum type, made by its constructors.
ADTs == {makeConstructors(k, "x" :> v) : k \in Variants, v \in Vals}

\* The objects a caller passes to a constructor: the fields of a variant, and
\* the same with a field named _type, as an object typed with fewer fields
\* than it has, or a value of the sum type passed on, carries.
ArgsObjects ==
  {Args("x" :> v) : v \in Vals}
    \cup {Args(("x" :> v) @@ ("_type" :> k)) : v \in Vals, k \in Variants}

\* The handler maps a caller can pass: any set of keys, each with a handler.
HandlerMaps ==
  UNION {{[k \in S |-> Handler(k, r[k])] : r \in [S -> Vals]} :
           S \in SUBSET Variants}

\* The containers the caller holds.
Held(fam) ==
  CASE fam = "Option" -> Options("held")
    [] fam = "Either" -> Eithers("held")
    [] fam = "Try" -> Tries("held")
    [] fam = "List" -> Lists(MaxLen)
    [] fam = "IO" -> IOs("s")

\* The containers a caller's function returns.
Returned(fam) ==
  CASE fam = "Option" -> Options("returned")
    [] fam = "Either" -> Eithers("returned")
    [] fam = "Try" -> Tries("returned")
    [] fam = "List" -> Lists(MaxOut)
    [] fam = "IO" -> IOs("t")

Families == {"Option", "Either", "Try", "List", "IO"}

\* What the values inside a container of the family are.
Payloads(fam) == IF fam = "List" THEN Elems ELSE Vals

\* A function into Option, Either or Try may throw instead of returning.
Raises(fam) ==
  IF fam \in {"Option", "Either", "Try"} THEN {Throw(e) : e \in Errs} ELSE {}

\* The caller's functions from values into the family `fam`.
BindFns(fam, name) ==
  {Fn(name, t) :
     t \in [Payloads(fam) -> {Ret(c) : c \in Returned(fam)} \cup Raises(fam)]}

\* The caller's functions from values to values.
MapFns(fam, name) ==
  {Fn(name, t) : t \in [Payloads(fam) -> {Ret(v) : v \in Vals} \cup Raises(fam)]}

\* The caller's predicates on list elements.
PredFns(name) == {Fn(name, t) : t \in [Elems -> {Ret(b) : b \in BOOLEAN}]}

\* The caller's functions from list elements to list elements.
ElemFns(name) == {Fn(name, t) : t \in [Elems -> {Ret(v) : v \in Elems}]}

\* The caller's fallbacks () => c, for the containers of the family.
Fallbacks(fam, name) == {Thunk(name, c) : c \in Returned(fam)}

\* The caller's predicates on values.
ValuePredFns(name) == {Fn(name, t) : t \in [Vals -> {Ret(b) : b \in BOOLEAN}]}

\* The caller's functions (acc, head) => acc'.
FoldFns(name) == {Fn2(name, t) : t \in [Vals \X Elems -> Vals]}

\* The caller's functions from errors to values (recover).
RecoverFns(name) ==
  {Fn(name, t) : t \in [Errs -> {Ret(v) : v \in Vals} \cup Raises("Try")]}

\* The caller's functions from errors to Try (recoverWith).
RecoverWithFns(name) ==
  {Fn(name, t) :
     t \in [Errs -> {Ret(c) : c \in Returned("Try")} \cup Raises("Try")]}

\* In a nested call m.bind(x => f(x).bind(g)) each of the two functions has one
\* way of its own to fail: f with "boom" or Left(-1), g with "bang" or Left(-2).
\* On lists, each returns no, one or two elements (as f(x) = [x, x*10] does).
OwnErr(name) == IF name = "f" THEN "boom" ELSE "bang"

OwnLeft(name) == IF name = "f" THEN -1 ELSE -2

NestedReturned(fam, name) ==
  CASE fam = "Option" -> Options("returned")
    [] fam = "Either" ->
         {Right(v, "returned") : v \in Vals} \cup {Left(OwnLeft(name), "returned")}
    [] fam = "Try" ->
         {Success(v, "returned") : v \in Vals}
           \cup {Failure(OwnErr(name), "returned")}
    [] fam = "List" -> Lists(2)
    [] fam = "IO" ->
         {IO_of(v) : v \in Vals} \cup {IO_from(Thunk("t" \o name, MaxVal))}

NestedRaises(fam, name) ==
  IF fam \in {"Option", "Either", "Try"} THEN {Throw(OwnErr(name))} ELSE {}

NestedFns(fam, name) ==
  {Fn(name, t) :
     t \in [Payloads(fam) ->
              {Ret(c) : c \in NestedReturned(fam, name)}
                \cup NestedRaises(fam, name)]}

\* The continuations of the programs built step by step: the i-th one passes
\* its value on, changes it, or returns a program with an effect of its own.
Succ(v) == (v + 1) % (MaxVal + 1)

ChainFns(i) ==
  LET name == "f" \o ToString(i)
  IN  { Fn(name, [v \in Vals |-> Ret(IO_of(v))]),
        Fn(name, [v \in Vals |-> Ret(IO_of(Succ(v)))]),
        Fn(name, [v \in Vals |-> Ret(IO_from(Thunk("t" \o ToString(i), v)))]) }

ChainMapFns(i) == { Fn("f" \o ToString(i), [v \in Vals |-> Ret(Succ(v))]) }

\* Number of bind/map steps of a program.
RECURSIVE Depth(_)
Depth(io) ==
  IF io.effect.e \in {"bind", "map"} THEN 1 + Depth(io.effect.src) ELSE 0

----------------------------------------------------------------------------
(* The caller.                                                             *)

\* One call in the history of a Writer: the method, the function it was given
\* (or the start value of Writer.of) and the log entries it contributed.
Step(call, arg, entries) == [call |-> call, arg |-> arg, entries |-> entries]

Init ==
  /\ last = [op |-> "none"]
  /\ runs = 0
  /\ effects = <<>>
  /\ \/ /\ \/ \E fam \in Families : m \in Held(fam)
           \/ m = ExampleList
           \/ m \in ADTs
           \/ m \in JSValues
           \/ m \in ArgsObjects
        /\ history = <<>>
     \/ \E v \in Vals, monoid \in Monoids :
          /\ m = Writer_of(v, monoid)
          /\ history = << Step("of", v, <<>>) >>

\* The library keeps no state between calls: each call of a combinator is
\* considered on its own, from a caller that has made none yet.
Idle ==
  /\ last.op = "none"
  /\ history = <<>>
  /\ Family(m) \in Families
  /\ Family(m) = "List" => \A i \in DOMAIN ToSeq(m) : ToSeq(m)[i] \in Elems

\* The caller holds a list, made by at most MaxListOps calls so far, and has
\* not asked anything of it yet.
Deriving ==
  /\ last.op = "none"
  /\ Family(m) = "List"
  /\ \A i \in DOMAIN ToSeq(m) : ToSeq(m)[i] \in Elems
  /\ Len(history) < MaxListOps

\* list = list.bind(f), for results no longer than MaxLen
ListBind ==
  /\ Deriving
  /\ \E f \in BindFns("List", "f") :
       /\ Len(ToSeq(List_bind(m, f).val)) <= MaxLen
       /\ m' = List_bind(m, f).val
  /\ history' = Append(history, Step("bind", "f", <<>>))
  /\ UNCHANGED <<last, runs, effects>>

\* list = list.map(f)
ListMap ==
  /\ Deriving
  /\ \E f \in ElemFns("f") : m' = List_map(m, f).val
  /\ history' = Append(history, Step("map", "f", <<>>))
  /\ UNCHANGED <<last, runs, effects>>

\* list = list.filter(p)
ListFilter ==
  /\ Deriving
  /\ \E p \in PredFns("p") : m' = List_filter(m, p).val
  /\ history' = Append(history, Step("filter", "p", <<>>))
  /\ UNCHANGED <<last, runs, effects>>

\* m.orElse(fallback)
CallOrElse ==
  /\ Idle
  /\ Family(m) \in {"Option", "Either"}
  /\ \E fallback \in Fallbacks(Family(m), "fallback") :
       last' = [op |-> "orElse", func |-> fallback,
                out |-> IF Family(m) = "Option"
                          THEN Option_orElse(m, fallback)
                          ELSE Either_orElse(m, fallback)]
  /\ UNCHANGED <<m, runs, effects, history>>

\* m.ensure(left)(predicate)
CallEnsure ==
  /\ Idle
  /\ Family(m) = "Either"
  /\ \E left \in Lefts, p \in ValuePredFns("p") :
       last' = [op |-> "ensure", left |-> left, func |-> p,
                out |-> Either_ensure(m, left, p)]
  /\ UNCHANGED <<m, runs, effects, history>>

\* list.foldLeft(seed)(f)
CallFoldLeft ==
  /\ Idle
  /\ Family(m) = "List"
  /\ \E seed \in Vals, f \in FoldFns("f") :
       last' = [op |-> "foldLeft", seed |-> seed, func |-> f,
                out |-> List_foldLeft(m, seed, f)]
  /\ UNCHANGED <<m, runs, effects, history>>

\* list.foldRight(seed)(f)
CallFoldRight ==
  /\ Idle
  /\ Family(m) = "List"
  /\ \E seed \in Vals, f \in FoldFns("f") :
       last' = [op |-> "foldRight", seed |-> seed, func |-> f,
                out |-> List_foldRight(m, seed, f)]
  /\ UNCHANGED <<m, runs, effects, history>>

\* Option.fromNullable(value)
CallFromNullable ==
  /\ last.op = "none"
  /\ Family(m) = "JS"
  /\ last' = [op |-> "fromNullable", out |-> Option_fromNullable(m.value)]
  /\ UNCHANGED <<m, runs, effects, history>>

\* makeConstructors<T>()[key](args)
CallConstructor ==
  /\ last.op = "none"
  /\ Family(m) = "Args"
  /\ \E key \in Variants :
       last' = [op |-> "construct", key |-> key,
                out |-> Ret(makeConstructors(key, m.object))]
  /\ UNCHANGED <<m, runs, effects, history>>

\* match(value, handlers)
CallMatch ==
  /\ last.op = "none"
  /\ Family(m) = "ADT"
  /\ \E handlers \in HandlerMaps :
       last' = [op |-> "match", handlers |-> handlers, out |-> match(m, handlers)]
  /\ UNCHANGED <<m, runs, effects, history>>

\* list.isEmpty(), and the handler list.match(...) calls
CallIsEmpty ==
  /\ last.op = "none"
  /\ Family(m) = "List"
  /\ last' = [op |-> "isEmpty", out |-> Ret(List_isEmpty(m)),
              branch |-> List_match(m).branch]
  /\ UNCHANGED <<m, runs, effects, history>>

\* list.bind((x) => [x, x * 10])
CallBindExpand ==
  /\ last.op = "none"
  /\ Family(m) = "List"
  /\ last' = [op |-> "bind", func |-> Expand("f", 10),
              out |-> Bind(m, Expand("f", 10))]
  /\ UNCHANGED <<m, runs, effects, history>>

\* m.bind(f)
CallBind ==
  /\ Idle
  /\ \E f \in BindFns(Family(m), "f") :
       last' = [op |-> "bind", func |-> f, out |-> Bind(m, f)]
  /\ UNCHANGED <<m, runs, effects, history>>

\* m.bind(pure)
CallBindPure ==
  /\ Idle
  /\ last' = [op |-> "bind", func |-> PureFn(Family(m)),
              out |-> Bind(m, PureFn(Family(m)))]
  /\ UNCHANGED <<m, runs, effects, history>>

\* m.bind(x => f(x).bind(g))
CallBindNested ==
  /\ Idle
  /\ \E f \in NestedFns(Family(m), "f"), g \in NestedFns(Family(m), "g") :
       last' = [op |-> "bind", func |-> Kleisli(f, g),
                out |-> Bind(m, Kleisli(f, g))]
  /\ UNCHANGED <<m, runs, effects, history>>

\* m.map(f)
CallMap ==
  /\ Idle
  /\ \E f \in MapFns(Family(m), "f") :
       last' = [op |-> "map", func |-> f, out |-> Map(m, f)]
  /\ UNCHANGED <<m, runs, effects, history>>

\* m.recover(f)
CallRecover ==
  /\ Idle
  /\ Family(m) = "Try"
  /\ \E f \in RecoverFns("f") :
       last' = [op |-> "recover", func |-> f, out |-> Try_recover(m, f)]
  /\ UNCHANGED <<m, runs, effects, history>>

\* m.recoverWith(f)
CallRecoverWith ==
  /\ Idle
  /\ Family(m) = "Try"
  /\ \E f \in RecoverWithFns("f") :
       last' = [op |-> "recoverWith", func |-> f,
                out |-> Try_recoverWith(m, f)]
  /\ UNCHANGED <<m, runs, effects, history>>

\* program = program.bind(f): the caller keeps the new program.
BuildBind ==
  /\ Family(m) = "IO"
  /\ last.op \in {"none", "build"}
  /\ Depth(m) < MaxChain
  /\ \E f \in ChainFns(Depth(m) + 1) :
       LET out == IO_bind(m, f)
       IN  /\ m' = out.val
           /\ last' = [op |-> "build", func |-> f, out |-> out]
           /\ effects' = effects \o out.calls
  /\ UNCHANGED <<runs, history>>

\* program = program.map(f)
BuildMap ==
  /\ Family(m) = "IO"
  /\ last.op \in {"none", "build"}
  /\ Depth(m) < MaxChain
  /\ \E f \in ChainMapFns(Depth(m) + 1) :
       LET out == IO_map(m, f)
       IN  /\ m' = out.val
           /\ last' = [op |-> "build", func |-> f, out |-> out]
           /\ effects' = effects \o out.calls
  /\ UNCHANGED <<runs, history>>

\* program.runUnsafe()
RunUnsafe ==
  /\ Family(m) = "IO"
  /\ last.op \in {"none", "build", "runUnsafe"}
  /\ runs < MaxRuns
  /\ LET out == IO_runUnsafe(m)
     IN  /\ last' = [op |-> "runUnsafe", out |-> out]
         /\ effects' = effects \o out.calls
  /\ runs' = runs + 1
  /\ UNCHANGED <<m, history>>

\* The Writer is built step by step, as factorial(n) of the tests builds it.
Building == Family(m) = "Writer" /\ Len(history) <= MaxOps

\* writer = writer.bind((prev, make) => make(prev * n, [temp(n, prev * n)]))
WriterBind ==
  /\ Building
  /\ LET f == FactorialStep(Len(history))
         out == Writer_bind(m, f)
     IN  /\ last' = [op |-> "Writer.bind", self |-> m, func |-> f,
                  class |-> "src/Monoid.ts", out |-> out]
         /\ m' = out.val
         /\ history' = Append(history,
                              Step("bind", f,
                                   << Entry(m.monoid,
                                            temp(f.n, m.value * f.n)) >>))
  /\ UNCHANGED <<runs, effects>>

\* writer = writer.tell(log)
WriterTell ==
  /\ Building
  /\ \E text \in {"TEST" \o ToString(Len(history)), temp(1, 1)} :
       LET log == Entry(m.monoid, text)
           out == Writer_tell(m, log)
       IN  /\ last' = [op |-> "Writer.tell", self |-> m, log |-> log, out |-> out]
           /\ m' = out.val
           /\ history' = Append(history, Step("tell", log, <<log>>))
  /\ UNCHANGED <<runs, effects>>

\* writer = writer.map((value) => value + 1)
WriterMap ==
  /\ Building
  /\ LET f == Plus("f", 1)
         out == Writer_map(m, f)
     IN  /\ last' = [op |-> "Writer.map", self |-> m, func |-> f, out |-> out]
         /\ m' = out.val
         /\ history' = Append(history, Step("map", f, <<>>))
  /\ UNCHANGED <<runs, effects>>

\* The Writer is Writer.of(v, monoid) or at most MaxLawOps calls further, its
\* value is one the caller's continuations are defined on, and the call before
\* was one whose result the caller kept: a call whose result is dropped leaves
\* the writer as it was, so the calls after it are those of the state before.
Short ==
  /\ Family(m) = "Writer"
  /\ Len(history) <= 1 + MaxLawOps
  /\ m.value \in Vals
  /\ (last.op = "none" \/ "self" \in DOMAIN last)

\* writer.bind(f), the result not kept.
WriterCallBind ==
  /\ Short
  /\ \E f \in MakeFns("f") :
       last' = [op |-> "Writer.bind", func |-> f, class |-> "src/Monoid.ts",
                out |-> Writer_bind(m, f)]
  /\ UNCHANGED <<m, runs, effects, history>>

\* writer.bind((x, make) => f(x, make).bind(g)), the result not kept.
WriterCallBindNested ==
  /\ Short
  /\ \E f \in MakeFns("f"), g \in MakeFns("g") :
       last' = [op |-> "Writer.bind", func |-> Kleisli(f, g),
                class |-> "src/Monoid.ts", out |-> Writer_bind(m, Kleisli(f, g))]
  /\ UNCHANGED <<m, runs, effects, history>>

\* writer.bind((value) => Writer.of(value, monoid)), the result not kept.
WriterBindOf ==
  /\ Family(m) = "Writer"
  /\ \E monoid \in MonoidsOfType(m.monoid) :
       last' = [op |-> "Writer.bind", func |-> OfStep(monoid), class |-> "src/Monoid.ts",
                out |-> Writer_bind(m, OfStep(monoid))]
  /\ UNCHANGED <<m, runs, effects, history>>

\* The same call on the Writer of src/Writer.ts.
WriterBindOfUnasserted ==
  /\ Family(m) = "Writer"
  /\ \E monoid \in MonoidsOfType(m.monoid) :
       last' = [op |-> "Writer.bind", func |-> OfStep(monoid), class |-> "src/Writer.ts",
                out |-> Writer_bind_unasserted(m, OfStep(monoid))]
  /\ UNCHANGED <<m, runs, effects, history>>

Next ==
  \/ CallBind
  \/ CallBindPure
  \/ CallBindExpand
  \/ ListBind
  \/ ListMap
  \/ ListFilter
  \/ CallOrElse
  \/ CallEnsure
  \/ CallFoldLeft
  \/ CallFoldRight
  \/ CallIsEmpty
  \/ CallMatch
  \/ CallFromNullable
  \/ CallConstructor
  \/ CallBindNested
  \/ CallMap
  \/ CallRecover
  \/ CallRecoverWith
  \/ BuildBind
  \/ BuildMap
  \/ RunUnsafe
  \/ WriterBind
  \/ WriterTell
  \/ WriterMap
  \/ WriterCallBind
  \/ WriterCallBindNested
  \/ WriterBindOf
  \/ WriterBindOfUnasserted

Spec == Init /\ [][Next]_vars

----------------------------------------------------------------------------
(* Observation of completions.                                             *)

\* What the laws compare of a completion: the thrown error, or the variant
\* and payload of the returned container (not which object it is), the
\* elements of a list in order, and for an IO the result of running it and
\* the effects in their order.
Observed(c) ==
  IF c.kind = "throw"
    THEN [kind |-> "throw", err |-> c.err]
    ELSE CASE Family(c.val) \in {"Option", "Either", "Try"} ->
                [kind |-> "ret", val |-> [c.val EXCEPT !.ref = "any"]]
           [] Family(c.val) = "List" -> [kind |-> "ret", val |-> c.val]
           [] Family(c.val) = "IO" -> After(c, IO_runUnsafe(c.val))

\* m is pure(a): Some(a), Right(a), Success(a), Pair(a, Empty), IO.of(a).
IsPure(c) ==
  CASE c.tag \in {"Some", "Right", "Success"} -> TRUE
    [] c.tag = "Pair" -> c.tail.tag = "Empty"
    [] c.tag = "IO" -> c.effect.e = "value"
    [] OTHER -> FALSE

PureArg(c) ==
  CASE c.tag \in {"Some", "Right", "Success"} -> c.value
    [] c.tag = "Pair" -> c.head
    [] c.tag = "IO" -> c.effect.value

\* m.bind(f).bind(g)
Chained(c, f, g) ==
  LET r == Bind(c, f)
  IN  IF r.kind = "throw" THEN r ELSE After(r, Bind(r.val, g))

\* The table of the caller's function called `name` inside the argument.
TableOf(func, name) ==
  CASE func.type = "fn" -> func.tbl
    [] func.type = "kleisli" -> IF name = func.f.name THEN func.f.tbl ELSE func.g.tbl

\* The outcome of the last invocation of a caller's function during the call.
LastInvoked(func, calls) ==
  LET c == calls[Len(calls)] IN TableOf(func, c.fn)[c.arg[1]]

\* Number of executions of the caller's function `name` so far.
Count(name) == Cardinality({i \in DOMAIN effects : effects[i].fn = name})

\* The thunk and the continuations of a program.
RECURSIVE NodeNames(_)
NodeNames(io) ==
  CASE io.effect.e = "value" -> {}
    [] io.effect.e = "thunk" -> {io.effect.thunk.name}
    [] OTHER -> {io.effect.func.name} \cup NodeNames(io.effect.src)

\* The value of the last IO of a chain, from the tables of its steps.
RECURSIVE ChainValue(_)
ChainValue(io) ==
  CASE io.effect.e = "value" -> io.effect.value
    [] io.effect.e = "thunk" -> io.effect.thunk.out.val
    [] io.effect.e = "bind" ->
         ChainValue(io.effect.func.tbl[ChainValue(io.effect.src)].val)
    [] io.effect.e = "map" -> io.effect.func.tbl[ChainValue(io.effect.src)].val

----------------------------------------------------------------------------
(* Claims.                                                                 *)

\* C1: left identity. For Option, Either, List and IO, pure(a).bind(f) gives
\* what f(a) gives: the same container (for a list the same elements in the
\* same order, for an IO the same result and effects when run).
LeftIdentity ==
  ( /\ last.op = "bind"
    /\ last.func.type = "fn"
    /\ Family(m) \in {"Option", "Either", "List", "IO"}
    /\ IsPure(m) )
  => Observed(last.out) = Observed(Apply(last.func, PureArg(m)))

\* A singleton list was bound to a function that returns two elements.
LeftIdentityWitness ==
  /\ last.op = "bind"
  /\ last.func.type = "fn"
  /\ m.tag = "Pair"
  /\ IsPure(m)
  /\ last.out.val.tag = "Pair"
  /\ last.out.val.tail.tag = "Pair"

\* C2: right identity. m.bind(pure) is m again (same variant, payload and
\* elements in order; same result and effects for an IO), for every m,
\* None, Left, Failure and Empty included.
RightIdentity ==
  (last.op = "bind" /\ last.func.type = "pure")
  => Observed(last.out) = Observed(Ret(m))

\* A list of two different elements was bound to pure.
RightIdentityWitness ==
  /\ last.op = "bind"
  /\ last.func.type = "pure"
  /\ m.tag = "Pair"
  /\ m.tail.tag = "Pair"
  /\ m.head # m.tail.head

\* C3: associativity. m.bind(x => f(x).bind(g)) gives what m.bind(f).bind(g)
\* gives, for Option, Either, Try (also when f or g throws), List and IO.
Associativity ==
  (last.op = "bind" /\ last.func.type = "kleisli")
  => Observed(last.out) = Observed(Chained(m, last.func.f, last.func.g))

\* A Success was bound to an f that returns a Success and a g that throws there.
AssociativityWitness ==
  /\ last.op = "bind"
  /\ last.func.type = "kleisli"
  /\ m.tag = "Success"
  /\ Len(last.out.calls) = 2
  /\ LastInvoked(last.func, last.out.calls).kind = "throw"

\* C4 as claimed: new Success(a).bind(f) has the outcome of f(a), also when f
\* throws.
TryLeftIdentity ==
  (last.op = "bind" /\ last.func.type = "fn" /\ m.tag = "Success")
  => Observed(last.out) = Observed(Apply(last.func, m.value))

\* C4 amended: new Success(a).bind(f) has the outcome of f(a) whenever f(a)
\* returns (a Success or a Failure); when f(a) throws e, bind returns
\* Failure(e) where f(a) itself throws e.
TryLeftIdentityWhenReturning ==
  (last.op = "bind" /\ last.func.type = "fn" /\ m.tag = "Success")
  => LET r == Apply(last.func, m.value)
     IN  IF r.kind = "ret"
           THEN Observed(last.out) = Observed(r)
           ELSE Observed(last.out)
                  = Observed(After(r, Ret(Failure(r.err, "fresh"))))

\* A Success was bound to a function that returns a Failure.
TryLeftIdentityWitness ==
  /\ last.op = "bind"
  /\ last.func.type = "fn"
  /\ m.tag = "Success"
  /\ last.func.tbl[m.value].kind = "ret"
  /\ last.func.tbl[m.value].val.tag = "Failure"

\* C5: bind, map, recover and recoverWith of a Try always return a Try; when
\* the function was invoked and threw e, they return Failure(e).
TryCatchBoundary ==
  ( /\ Family(m) = "Try"
    /\ last.op \in {"bind", "map", "recover", "recoverWith"} )
  => /\ last.out.kind = "ret"
     /\ Family(last.out.val) = "Try"
     /\ ( /\ last.out.calls # <<>>
          /\ LastInvoked(last.func, last.out.calls).kind = "throw" )
        => /\ last.out.val.tag = "Failure"
           /\ last.out.val.error
                = LastInvoked(last.func, last.out.calls).err

\* recover was called on a Failure with a function that throws another error.
TryCatchBoundaryWitness ==
  /\ last.op = "recover"
  /\ m.tag = "Failure"
  /\ last.func.tbl[m.error].kind = "throw"
  /\ last.func.tbl[m.error].err # m.error
  /\ last.out.kind = "ret"

\* C6: bind and map of None, Left and Failure never invoke the function and
\* return the None instance, a Left with the same payload, a Failure with the
\* same error.
ShortCircuit ==
  (m.tag \in {"None", "Left", "Failure"} /\ last.op \in {"bind", "map"})
  => /\ last.out.kind = "ret"
     /\ last.out.calls = <<>>
     /\ CASE m.tag = "None" -> last.out.val = None_instance
          [] m.tag = "Left" ->
               last.out.val.tag = "Left" /\ last.out.val.value = m.value
          [] m.tag = "Failure" ->
               last.out.val.tag = "Failure" /\ last.out.val.error = m.error

\* map was called on None with a function that throws on every value.
ShortCircuitWitness ==
  /\ last.op = "map"
  /\ m.tag = "None"
  /\ last.func.type = "fn"
  /\ \A v \in Vals : last.func.tbl[v].kind = "throw"
  /\ last.out.kind = "ret"

\* C7: Option and Either never catch. When the function given to bind or map of
\* a Some or a Right throws, the call throws that error and returns nothing;
\* and a call throws only what a caller's function threw.
NeverCatch ==
  (Family(m) \in {"Option", "Either"} /\ last.op \in {"bind", "map"})
  => /\ ( /\ last.func.type = "fn"
          /\ m.tag \in {"Some", "Right"}
          /\ last.func.tbl[m.value].kind = "throw" )
        => /\ last.out.kind = "throw"
           /\ last.out.err = last.func.tbl[m.value].err
     /\ last.out.kind = "throw"
        => /\ last.out.calls # <<>>
           /\ LastInvoked(last.func, last.out.calls).kind = "throw"
           /\ LastInvoked(last.func, last.out.calls).err = last.out.err

\* map was called on a Right with a function that throws on its value.
NeverCatchWitness ==
  /\ last.op = "map"
  /\ m.tag = "Right"
  /\ last.func.tbl[m.value].kind = "throw"
  /\ last.out.kind = "throw"

\* C8: IO is deferred and not memoized. Building a program executes nothing;
\* after k calls of runUnsafe the thunk and every continuation of the chain
\* have been executed k times each, and a run returns the value of the last IO
\* of the chain.
IODeferredNotMemoized ==
  Family(m) = "IO"
  => /\ \A n \in NodeNames(m) : Count(n) = runs
     /\ runs = 0 => effects = <<>>
     /\ last.op = "build" => last.out.calls = <<>>
     /\ last.op = "runUnsafe"
        => last.out.kind = "ret" /\ last.out.val = ChainValue(m)

\* A program IO.from(t).bind(f1).bind(f2) was run twice.
IODeferredNotMemoizedWitness ==
  /\ Family(m) = "IO"
  /\ last.op = "runUnsafe"
  /\ runs = 2
  /\ Depth(m) = 2
  /\ m.effect.e = "bind"
  /\ m.effect.src.effect.e = "bind"
  /\ m.effect.src.effect.src.effect.e = "thunk"

----------------------------------------------------------------------------
(* Writer: what a history of calls is expected to give.                    *)

\* The log entries the calls contributed, in call order.
RECURSIVE EntriesOf(_)
EntriesOf(steps) ==
  IF steps = <<>> THEN <<>> ELSE Head(steps).entries \o EntriesOf(Tail(steps))

\* combine folded left to right over the entries, from the identity.
RECURSIVE FoldLog(_, _)
FoldLog(monoid, entries) ==
  IF entries = <<>>
    THEN Monoid_pure(monoid)
    ELSE Monoid_combine(monoid,
                        FoldLog(monoid, SubSeq(entries, 1, Len(entries) - 1)),
                        entries[Len(entries)])

\* The start value with the functions of the calls applied in order.
RECURSIVE ValueOf(_)
ValueOf(steps) ==
  LET step == steps[Len(steps)]
      prev == ValueOf(SubSeq(steps, 1, Len(steps) - 1))
  IN  CASE step.call = "of" -> step.arg
        [] step.call = "bind" -> prev * step.arg.n
        [] step.call = "map" -> prev + step.arg.k
        [] step.call = "tell" -> prev

RECURSIVE Factorial(_)
Factorial(n) == IF n <= 1 THEN 1 ELSE n * Factorial(n - 1)

\* The calls so far are those factorial(n) of the tests makes:
\* Writer.of(1, monoid).tell([temp(1, "1")]), then one bind for each of 2 .. n.
FactorialRun(n) ==
  /\ Len(history) = n + 1
  /\ history[1].call = "of"
  /\ history[1].arg = 1
  /\ history[2].call = "tell"
  /\ history[2].arg = Entry(m.monoid, temp(1, 1))
  /\ \A i \in 3 .. n + 1 : history[i].call = "bind" /\ history[i].arg.n = i - 1

\* C9: the log of a Writer built by of, bind, tell and map is the monoid's
\* combine folded left to right, combine(old, new), over the entries the calls
\* contributed in call order; map contributes no entry and tell leaves the
\* value alone, so the value is the start value with the functions of bind
\* and map applied in order. factorial(n) gives n! with the entries Fac(1) to
\* Fac(n) in that order under the list monoid.
WriterLogInCallOrder ==
  Family(m) = "Writer" =>
    /\ m.log = FoldLog(m.monoid, EntriesOf(history))
    /\ m.value = ValueOf(history)
    /\ last.op = "Writer.map" => m.log = last.self.log
    /\ last.op = "Writer.tell" =>
         /\ m.value = last.self.value
         /\ m.log = Monoid_combine(m.monoid, last.self.log, last.log)
    /\ \A n \in 1 .. MaxOps :
         FactorialRun(n) =>
           /\ m.value = Factorial(n)
           /\ m.monoid.combine = "spread" =>
                m.log = [i \in 1 .. n |-> temp(i, Factorial(i))]

\* factorial(5) under the list monoid: 120 with Fac(1) to Fac(5) in order.
WriterLogInCallOrderWitness ==
  /\ Family(m) = "Writer"
  /\ last.op = "Writer.bind"
  /\ m.monoid = ListMonoid(1)
  /\ FactorialRun(5)
  /\ m.value = 120
  /\ m.log = <<"Fac(1)=1", "Fac(2)=2", "Fac(3)=6", "Fac(4)=24", "Fac(5)=120">>

\* C10: Writer.bind fails with an assertion error when the Writer the
\* continuation returns carries another monoid instance than the receiver;
\* it never combines the two logs silently.
WriterBindAssertsSameMonoid ==
  ( /\ last.op = "Writer.bind"
    /\ last.func.type = "of"
    /\ last.func.monoid # m.monoid )
  => /\ last.out.kind = "throw"
     /\ last.out.err = "AssertionError"

\* w.bind(f).bind(g) on Writers.
WriterChained(w, f, g) ==
  LET r == Writer_bind(w, f) IN After(r, Writer_bind(r.val, g))

\* The monoids of src/Monoid.ts: string concatenation and list append.
Lawful(monoid) == monoid.combine \in {"concat", "spread"}

\* C11: Writer is a lawful monad over the receiver's monoid M (string
\* concatenation or list append). Writer.of(a, M).bind(f) has the value and
\* log of f(a); w.bind(v => Writer.of(v, M)) has the value and log of w;
\* w.bind(x => f(x).bind(g)) has the value and log of w.bind(f).bind(g).
WriterMonadLaws ==
  ( /\ Family(m) = "Writer"
    /\ Lawful(m.monoid)
    /\ last.op = "Writer.bind"
    /\ last.class = "src/Monoid.ts" )
  => /\ (last.func.type = "make" /\ Len(history) = 1)
        => /\ last.out.kind = "ret"
           /\ last.out.val.value = last.func.tbl[m.value].value
           /\ last.out.val.log = Entry(m.monoid, last.func.tbl[m.value].text)
     /\ (last.func.type = "of" /\ last.func.monoid = m.monoid)
        => /\ last.out.kind = "ret"
           /\ last.out.val.value = m.value
           /\ last.out.val.log = m.log
     /\ last.func.type = "kleisli"
        => LET r == WriterChained(m, last.func.f, last.func.g)
           IN  /\ last.out.kind = r.kind
               /\ last.out.val.value = r.val.value
               /\ last.out.val.log = r.val.log

\* A Writer over a list monoid with one log entry was bound to
\* x => f(x).bind(g): the log has the three entries in order.
WriterMonadLawsWitness ==
  /\ Family(m) = "Writer"
  /\ m.monoid = ListMonoid(1)
  /\ Len(m.log) = 1
  /\ last.op = "Writer.bind"
  /\ last.func.type = "kleisli"
  /\ last.out.kind = "ret"
  /\ last.out.val.log = <<m.log[1], "f", "g">>

RECURSIVE FlatMap(_, _)
FlatMap(l, func) ==
  IF l.tag = "Empty"
    THEN <<>>
    ELSE ToSeq(Apply(func, l.head).val) \o FlatMap(l.tail, func)

\* C13: List.bind flattens in order. The result of [x1, ..., xn].bind(f) has
\* the elements of f(x1), then of f(x2), ..., then of f(xn), each in its own
\* order (so [1, 2, 3] with f(x) = [x, x * 10] gives [1, 10, 2, 20, 3, 30]);
\* an element with f(x) Empty contributes nothing; Empty.bind(f) is Empty and
\* calls nothing; f is called once for each element, in list order.
ListBindFlattens ==
  ( /\ last.op = "bind"
    /\ Family(m) = "List"
    /\ last.func.type \in {"fn", "expand"} )
  => /\ last.out.kind = "ret"
     /\ ToSeq(last.out.val) = FlatMap(m, last.func)
     /\ Len(last.out.calls) = Len(ToSeq(m))
     /\ \A i \in DOMAIN last.out.calls : last.out.calls[i].arg = <<ToSeq(m)[i]>>
     /\ m.tag = "Empty" => last.out.val = Empty_instance
     /\ (m = ExampleList /\ last.func.type = "expand")
        => ToSeq(last.out.val) = <<1, 10, 2, 20, 3, 30>>

\* [1, 2, 3] was bound to x => [x, x * 10].
ListBindFlattensWitness ==
  /\ last.op = "bind"
  /\ m = ExampleList
  /\ last.func.type = "expand"
  /\ ToSeq(last.out.val) = <<1, 10, 2, 20, 3, 30>>

\* C14: List.isEmpty is the emptiness predicate and agrees with match. For
\* every list, also one that bind, map and filter calls returned, isEmpty()
\* is true exactly when the list is the Empty variant, which is exactly when
\* match takes the ifEmpty branch.
ListIsEmptyAgreesWithMatch ==
  last.op = "isEmpty"
  => /\ last.out.kind = "ret"
     /\ last.out.val <=> m.tag = "Empty"
     /\ last.out.val <=> last.branch = "ifEmpty"

\* The calls of f thread the accumulator: the first call has the seed as its
\* first argument, each later call the result of the call before it, and the
\* fold returns the result of the last call (the seed when there is none).
Threaded(seed, func, out) ==
  LET n == Len(out.calls)
  IN  /\ out.kind = "ret"
      /\ n = 0 => out.val = seed
      /\ n > 0 => /\ out.calls[1].arg[1] = seed
                  /\ out.val = func.tbl[out.calls[n].arg]
      /\ \A i \in 1 .. n - 1 :
           out.calls[i + 1].arg[1] = func.tbl[out.calls[i].arg]

\* C15: fold order and argument order. foldLeft(seed)(f) on [x1, ..., xn]
\* calls f(acc, x1), f(acc, x2), ..., f(acc, xn) in that order and
\* foldRight(seed)(f) calls f(acc, xn), ..., f(acc, x1), the accumulator first
\* and the element second, each starting from the seed and returning the last
\* result; on Empty both return the seed and call nothing; f is called n times.
FoldOrder ==
  (last.op \in {"foldLeft", "foldRight"})
  => LET xs == ToSeq(m)
         n == Len(xs)
     IN  /\ Threaded(last.seed, last.func, last.out)
         /\ Len(last.out.calls) = n
         /\ last.op = "foldLeft"
            => \A i \in 1 .. n : last.out.calls[i].arg[2] = xs[i]
         /\ last.op = "foldRight"
            => \A i \in 1 .. n : last.out.calls[i].arg[2] = xs[n + 1 - i]

\* foldRight was called on a list of two different elements with a function
\* for which folding from the head gives another result.
FoldOrderWitness ==
  /\ last.op = "foldRight"
  /\ Len(ToSeq(m)) = 2
  /\ m.head # m.tail.head
  /\ last.out.val # List_foldLeft(m, last.seed, last.func).val

\* C16: ADT match is exhaustive. match(value, handlers) fails and returns
\* nothing whenever the handler map lacks a handler for a declared variant,
\* whichever variant the value has; with a complete map it calls the handler
\* named by value._type once, with the value, and returns its result.
ADTMatchExhaustive ==
  last.op = "match"
  => /\ DOMAIN last.handlers # Variants => last.out.kind = "throw"
     /\ DOMAIN last.handlers = Variants
        => /\ last.out.kind = "ret"
           /\ last.out.calls
                = << [fn |-> m.object["_type"], arg |-> <<m.object>>] >>
           /\ last.out.val = last.handlers[m.object["_type"]].returns

\* C17: Either.ensure. Right(v).ensure(l)(p) is the same Right when p(v) is
\* true and Left(l) when p(v) is false, and p is evaluated once, on v; a Left
\* x gives x.ensure(l)(p) = x, the very same object with its own payload, and
\* p is not evaluated.
EitherEnsure ==
  last.op = "ensure"
  => /\ last.out.kind = "ret"
     /\ m.tag = "Right"
        => /\ last.out.calls = << [fn |-> "p", arg |-> <<m.value>>] >>
           /\ last.func.tbl[m.value].val => last.out.val = m
           /\ ~last.func.tbl[m.value].val
              => /\ last.out.val.tag = "Left"
                 /\ last.out.val.value = last.left
     /\ m.tag = "Left"
        => /\ last.out.val = m
           /\ last.out.calls = <<>>

\* ensure was called on a Left with another left value and a predicate that
\* is false everywhere.
EitherEnsureWitness ==
  /\ last.op = "ensure"
  /\ m.tag = "Left"
  /\ last.left # m.value
  /\ \A v \in Vals : ~last.func.tbl[v].val
  /\ last.out.val = m

\* C18: Try recovery. Failure(e).recover(f) is Success(f(e)) when f returns
\* and Failure(e2) when f throws e2; Failure(e).recoverWith(f) is the Try that
\* f(e) returns, or Failure(e2) when f throws e2; on a Success recover and
\* recoverWith return the same Success and do not call f.
TryRecovery ==
  (Family(m) = "Try" /\ last.op \in {"recover", "recoverWith"})
  => /\ last.out.kind = "ret"
     /\ m.tag = "Success" => last.out.val = m /\ last.out.calls = <<>>
     /\ m.tag = "Failure"
        => LET r == last.func.tbl[m.error]
           IN  /\ last.out.calls = << [fn |-> "f", arg |-> <<m.error>>] >>
               /\ r.kind = "throw"
                  => /\ last.out.val.tag = "Failure"
                     /\ last.out.val.error = r.err
               /\ (r.kind = "ret" /\ last.op = "recover")
                  => /\ last.out.val.tag = "Success"
                     /\ last.out.val.value = r.val
               /\ (r.kind = "ret" /\ last.op = "recoverWith")
                  => last.out.val = r.val

\* recoverWith was called on a Failure with a function that returns a
\* Success for its error.
TryRecoveryWitness ==
  /\ last.op = "recoverWith"
  /\ m.tag = "Failure"
  /\ last.func.tbl[m.error].kind = "ret"
  /\ last.func.tbl[m.error].val.tag = "Success"
  /\ last.out.val.tag = "Success"

\* C19: orElse is lazy. On a Some or a Right, orElse(fallback) returns the
\* receiver itself and does not evaluate fallback; on None or a Left it
\* evaluates fallback once and returns exactly what fallback returned.
OrElseLazy ==
  last.op = "orElse"
  => /\ last.out.kind = "ret"
     /\ m.tag \in {"Some", "Right"}
        => last.out.val = m /\ last.out.calls = <<>>
     /\ m.tag \in {"None", "Left"}
        => /\ last.out.calls = << [fn |-> "fallback", arg |-> <<>>] >>
           /\ last.out.val = last.func.out.val

\* orElse was called on a Left with a fallback that returns another Left.
OrElseLazyWitness ==
  /\ last.op = "orElse"
  /\ m.tag = "Left"
  /\ last.func.out.val.tag = "Left"
  /\ last.func.out.val.value # m.value
  /\ last.out.val = last.func.out.val

\* C20: Option.fromNullable(v) returns the None instance exactly when v is
\* null or undefined, and a Some carrying v for every other value, the falsy
\* 0, NaN, "" and false included; it never throws.
FromNullable ==
  last.op = "fromNullable"
  => /\ last.out.kind = "ret"
     /\ m.value[1] \in {"null", "undefined"} <=> last.out.val = None_instance
     /\ m.value[1] \notin {"null", "undefined"}
        => /\ last.out.val.tag = "Some"
           /\ last.out.val.value = m.value

\* fromNullable was called with 0.
FromNullableWitness ==
  /\ last.op = "fromNullable"
  /\ m.value = <<"number", "0">>
  /\ last.out.val.tag = "Some"

\* C21: makeConstructors()[K](args) returns a record whose _type is K and
\* whose other fields are those of args, whatever fields args carries, a field
\* named _type included; args is left as it was.
ConstructorTags ==
  last.op = "construct"
  => /\ last.out.kind = "ret"
     /\ DOMAIN last.out.val.object = DOMAIN m.object \cup {"_type"}
     /\ last.out.val.object["_type"] = last.key
     /\ \A field \in DOMAIN m.object \ {"_type"} :
          last.out.val.object[field] = m.object[field]
     /\ m \in ArgsObjects
====
